---------------------------- MODULE Spec2Model ----------------------------
(***************************************************************************)
(* A model of melody's Session (src/session.go): the outbound channel, the *)
(* status word, the close path, the write pump, the read pump with its     *)
(* read-deadline renewal, and the public API, each goroutine advancing one *)
(* atomic operation (an atomic load or store, a channel operation, a mutex *)
(* operation, a transport call) per step.                                  *)
(***************************************************************************)
EXTENDS Integers, Sequences, FiniteSets

(* ------------------------------ bounds -------------------------------- *)

\* Capacity of the output channel (Config.MessageBufferSize of the hub).
MessageBufferSize == 1

\* Number of public API calls all callers together may start.
MaxCalls == 3

\* Number of ticks the write pump's ticker may deliver.
MaxTicks == 1

\* The clock counts half seconds; it stops at MaxClock.
MaxClock == 5

\* Number of frames (data frames and pongs) the read pump may receive.
MaxReads == 4

\* Config.PongWait and Config.PingPeriod of the hub, in clock units.
PongWait == 2
PingPeriod == 1

\* Goroutines that use the public API of the session.
Callers == {"c1", "c2"}

\* Goroutines that invoke the close path.  close() has no caller inside
\* session.go; the close path is entered from outside the session, by the
\* request handler once the read pump has returned and by the hub when it
\* disconnects its sessions.
Closers == {"handler", "hub"}

(* ----------------------------- constants ------------------------------ *)

StatusNormal == 1
StatusStop == 2

\* time.Second in clock units.
Second == 2

\* The zero time.Time a new Session's lastReadTime holds: more than a second
\* before every reading of the clock.
ZeroTime == 0 - Second

NoEnv == [t |-> "None", msg |-> 0]

\* A caller between two calls.
NoCall == [pc |-> "idle", op |-> "none", env |-> NoEnv, second |-> FALSE]

\* What a returned call has done: the result handed to the caller, whether
\* its envelope entered the channel, how often errorHandler ran for it, and
\* whether a panic of the send was recovered.
NoLast == [op |-> "none", ret |-> "none", enqd |-> FALSE, rep |-> 0,
           recovered |-> FALSE, second |-> FALSE]

WriteOps == {"Write", "WriteBinary"}
CloseOps == {"Close", "CloseWithMsg"}

\* The frame kinds conn.WriteControl accepts.
ControlTypes == {"Close", "Ping", "Pong"}

VARIABLES
    status,        \* Session.status
    output,        \* the envelopes buffered in Session.output
    outputClosed,  \* whether close(s.output) has run
    rwMutex,       \* the goroutine holding Session.rwMutex, or "none"
    connCloses,    \* how many times conn.Close() has run
    chanCloses,    \* how many times close(s.output) has been executed
    setters,       \* the goroutines that executed the store of StatusStop
    panicked,      \* the goroutines that died of an unrecovered panic
    wire,          \* the frames the transport accepted, each with its writer
    enq,           \* the envelopes in the order they entered the channel
    call,          \* per caller: the API call it is executing
    last,          \* the API call that returned most recently
    calls,         \* API calls started so far
    closeReturned, \* some Close/CloseWithMsg call has returned
    handles,       \* the callers GetConn handed the transport handle to
    kpc,           \* per closer: its position inside close()
    wp,            \* the write pump: position, envelope in hand, exit cause
    ticks,         \* ticks delivered so far
    wpErrs,        \* errorHandler invocations made by the write pump
    sent,          \* messageSentHandler(+Binary) invocations
    rp,            \* the read pump's position
    now,           \* the clock time.Now() reads
    lastReadTime,  \* Session.lastReadTime
    readDeadline,  \* the read deadline set on the connection
    renewals,      \* the clock readings at which conn.SetReadDeadline ran
    reads,         \* frames received: setReadDeadline calls after the first
    dispatched,    \* message handler invocations
    rpErrs         \* errorHandler invocations made by the read pump

vars == <<status, output, outputClosed, rwMutex, connCloses, chanCloses,
          setters, panicked, wire, enq, call, last, calls, closeReturned,
          handles, kpc, wp, ticks, wpErrs, sent, rp, now, lastReadTime,
          readDeadline, renewals, reads, dispatched, rpErrs>>

sessionVars == <<status, output, outputClosed, rwMutex, connCloses, chanCloses,
                 setters, panicked>>
pumpVars == <<wp, ticks, wpErrs, sent>>
readVars == <<rp, now, lastReadTime, readDeadline, renewals, reads, dispatched,
              rpErrs>>

Init ==
    /\ status = StatusNormal
    /\ output = <<>>
    /\ outputClosed = FALSE
    /\ rwMutex = "none"
    /\ connCloses = 0
    /\ chanCloses = 0
    /\ setters = {}
    /\ panicked = {}
    /\ wire = <<>>
    /\ enq = <<>>
    /\ call = [c \in Callers |-> NoCall]
    /\ last = NoLast
    /\ calls = 0
    /\ closeReturned = FALSE
    /\ handles = {}
    /\ kpc = [k \in Closers |-> "idle"]
    /\ wp = [pc |-> "select", cur |-> NoEnv, exit |-> "none"]
    /\ ticks = 0
    /\ wpErrs = 0
    /\ sent = 0
    /\ rp = "start"
    /\ now = 0
    /\ lastReadTime = ZeroTime
    /\ readDeadline = 0
    /\ renewals = <<>>
    /\ reads = 0
    /\ dispatched = 0
    /\ rpErrs = 0

(* ------------------------------ helpers ------------------------------- *)

\* The payload a caller passes: the ordinal of the call, so that every
\* payload names its call; 0 stands for the empty payload []byte{}.
Payloads == {calls + 1}

\* An unrecovered panic ends the process: no goroutine takes another step.
Running == panicked = {}

\* Session.closed: the atomic load of status.
closed == status = StatusStop

\* Mutant of chanSend: the envelope enters the channel twice.
chanSendTwice(q, e) == Append(Append(q, e), e)

\* A send that finds room in the channel's buffer appends at the tail.
chanSend(q, e) == Append(q, e)

\* A frame as the transport received it, with the goroutine that wrote it.
Frame(e, who) == [t |-> e.t, msg |-> e.msg, by |-> who]

\* The record of call rec returning r.
Returned(rec, r) == [NoLast EXCEPT !.op = rec.op, !.ret = r, !.second = rec.second]

(* ---------------------------- public API ------------------------------ *)

\* A call that returns: the caller is idle again, the result is recorded.
Finish(c, res) ==
    /\ call' = [call EXCEPT ![c] = NoCall]
    /\ last' = res
    /\ closeReturned' = (closeReturned \/ res.op \in CloseOps)

\* Mutant of entryRejects: the method does not look at status.
entryNeverRejects == FALSE

\* The entry check shared by Write, WriteBinary, Close and CloseWithMsg:
\* whether the method returns its error without calling writeMessage.
entryRejects == closed

\* The shape shared by Write, WriteBinary, Close and CloseWithMsg: load
\* status; return the error if it is StatusStop, else enter writeMessage.
ApiEnqueue(c, op, e, err) ==
    /\ Running
    /\ UNCHANGED readVars
    /\ call[c].pc = "idle"
    /\ calls < MaxCalls
    /\ calls' = calls + 1
    /\ LET rec == [NoCall EXCEPT !.op = op, !.env = e, !.second = closeReturned]
       IN  IF entryRejects
           THEN Finish(c, Returned(rec, err))
           ELSE /\ call' = [call EXCEPT ![c] = [rec EXCEPT !.pc = "writeMessage"]]
                /\ UNCHANGED <<last, closeReturned>>
    /\ UNCHANGED <<sessionVars, wire, enq, handles, kpc, pumpVars>>

Write(c) ==
    \E m \in Payloads :
        ApiEnqueue(c, "Write", [t |-> "Text", msg |-> m], "SessionClosed")

WriteBinary(c) ==
    \E m \in Payloads :
        ApiEnqueue(c, "WriteBinary", [t |-> "Binary", msg |-> m], "SessionClosed")

Close(c) ==
    ApiEnqueue(c, "Close", [t |-> "Close", msg |-> 0], "AlreadyClosed")

CloseWithMsg(c) ==
    \E m \in Payloads :
        ApiEnqueue(c, "CloseWithMsg", [t |-> "Close", msg |-> m], "AlreadyClosed")

\* Mutant of reportAndReturn: the method returns nil and reports nothing.
returnUnreported(rec) == Returned(rec, "nil")

\* errorHandler invoked on behalf of the call, which then returns nil.
reportAndReturn(rec) == [Returned(rec, "nil") EXCEPT !.rep = 1]

\* writeMessage, lines 31-34: the second load of status.  On StatusStop the
\* error handler runs and the API method returns nil.
writeMessageCheck(c) ==
    /\ Running
    /\ UNCHANGED readVars
    /\ call[c].pc = "writeMessage"
    /\ IF closed
       THEN Finish(c, reportAndReturn(call[c]))
       ELSE /\ call' = [call EXCEPT ![c].pc = "send"]
            /\ UNCHANGED <<last, closeReturned>>
    /\ UNCHANGED <<sessionVars, wire, enq, calls, handles, kpc, pumpVars>>

\* Mutant of recoverSend: writeMessage without its deferred recover.
unrecoveredSend(c) ==
    /\ panicked' = panicked \cup {c}
    /\ UNCHANGED <<call, last, closeReturned>>

\* The deferred function of writeMessage, lines 35-39: the panic of a send
\* on a closed channel is recovered and reported; the method returns nil.
recoverSend(c) ==
    /\ Finish(c, [reportAndReturn(call[c]) EXCEPT !.recovered = TRUE])
    /\ UNCHANGED panicked

\* writeMessage, line 40: s.output <- message.  The send panics when the
\* channel is closed (also for a sender that was blocked on a full buffer),
\* completes when the buffer has room, and blocks otherwise.
writeMessageSend(c) ==
    /\ Running
    /\ UNCHANGED readVars
    /\ call[c].pc = "send"
    /\ IF outputClosed
       THEN /\ recoverSend(c)
            /\ UNCHANGED <<output, enq>>
       ELSE /\ Len(output) < MessageBufferSize
            /\ output' = chanSend(output, call[c].env)
            /\ enq' = Append(enq, call[c].env)
            /\ Finish(c, [Returned(call[c], "nil") EXCEPT !.enqd = TRUE])
            /\ UNCHANGED panicked
    /\ UNCHANGED <<status, outputClosed, rwMutex, connCloses, chanCloses,
                   setters, wire, calls, handles, kpc, pumpVars>>

\* IsClosed, lines 219-221.
IsClosed(c) ==
    /\ Running
    /\ UNCHANGED readVars
    /\ call[c].pc = "idle"
    /\ calls < MaxCalls
    /\ calls' = calls + 1
    /\ last' = [NoLast EXCEPT !.op = "IsClosed",
                               !.ret = IF closed THEN "true" ELSE "false"]
    /\ UNCHANGED <<sessionVars, wire, enq, call, closeReturned, handles, kpc, pumpVars>>

\* WriteControl, lines 223-225: conn.WriteControl runs in the caller's
\* goroutine, with no check of status; the transport refuses the frame once
\* it has been closed and may fail otherwise.
WriteControl(c) ==
    /\ Running
    /\ UNCHANGED readVars
    /\ call[c].pc = "idle"
    /\ calls < MaxCalls
    /\ calls' = calls + 1
    /\ \E t \in ControlTypes, m \in Payloads, ok \in BOOLEAN :
          LET e == [t |-> t, msg |-> m]
              res == [NoLast EXCEPT !.op = "WriteControl"]
          IN  IF ok /\ connCloses = 0
              THEN /\ wire' = Append(wire, Frame(e, c))
                   /\ last' = [res EXCEPT !.ret = "nil"]
              ELSE /\ last' = [res EXCEPT !.ret = "error"]
                   /\ UNCHANGED wire
    /\ UNCHANGED <<sessionVars, enq, call, closeReturned, handles, kpc, pumpVars>>

\* GetConn, lines 227-229: the transport handle is returned to the caller.
GetConn(c) ==
    /\ Running
    /\ UNCHANGED readVars
    /\ call[c].pc = "idle"
    /\ calls < MaxCalls
    /\ calls' = calls + 1
    /\ handles' = handles \cup {c}
    /\ last' = [NoLast EXCEPT !.op = "GetConn", !.ret = "conn"]
    /\ UNCHANGED <<sessionVars, wire, enq, call, closeReturned, kpc, pumpVars>>

(* ----------------------------- close path ----------------------------- *)

\* close, line 63: the load of status, outside the lock.
closeCheck(k) ==
    /\ Running
    /\ UNCHANGED readVars
    /\ kpc[k] = "idle"
    /\ kpc' = [kpc EXCEPT ![k] = IF closed THEN "done" ELSE "lock"]
    /\ UNCHANGED <<status, outputClosed, rwMutex, connCloses, chanCloses,
                   setters, panicked>>
    /\ UNCHANGED <<output, wire, enq, call, last, calls, closeReturned, handles, pumpVars>>

\* close, line 64: s.rwMutex.Lock().
closeLock(k) ==
    /\ Running
    /\ UNCHANGED readVars
    /\ kpc[k] = "lock"
    /\ rwMutex = "none"
    /\ rwMutex' = k
    /\ kpc' = [kpc EXCEPT ![k] = "store"]
    /\ UNCHANGED <<status, outputClosed, connCloses, chanCloses, setters, panicked>>
    /\ UNCHANGED <<output, wire, enq, call, last, calls, closeReturned, handles, pumpVars>>

\* Mutant of closeStore: the close path without the store of StatusStop.
closeWithoutStore(k) ==
    /\ Running
    /\ UNCHANGED readVars
    /\ kpc[k] = "store"
    /\ kpc' = [kpc EXCEPT ![k] = "connClose"]
    /\ UNCHANGED <<status, setters, outputClosed, rwMutex, connCloses, chanCloses,
                   panicked>>
    /\ UNCHANGED <<output, wire, enq, call, last, calls, closeReturned, handles,
                   pumpVars>>

\* close, line 65: atomic.StoreUint32(&s.status, StatusStop).
closeStore(k) ==
    /\ Running
    /\ UNCHANGED readVars
    /\ kpc[k] = "store"
    /\ status' = StatusStop
    /\ setters' = setters \cup {k}
    /\ kpc' = [kpc EXCEPT ![k] = "connClose"]
    /\ UNCHANGED <<outputClosed, rwMutex, connCloses, chanCloses, panicked>>
    /\ UNCHANGED <<output, wire, enq, call, last, calls, closeReturned, handles, pumpVars>>

\* close, line 66: _ = s.conn.Close().
closeConn(k) ==
    /\ Running
    /\ UNCHANGED readVars
    /\ kpc[k] = "connClose"
    /\ connCloses' = connCloses + 1
    /\ kpc' = [kpc EXCEPT ![k] = "chanClose"]
    /\ UNCHANGED <<status, outputClosed, rwMutex, chanCloses, setters, panicked>>
    /\ UNCHANGED <<output, wire, enq, call, last, calls, closeReturned, handles, pumpVars>>

\* close, line 67: close(s.output).  Closing a closed channel panics; close
\* has no recover, so the panic ends the process with the mutex still held.
closeChan(k) ==
    /\ Running
    /\ UNCHANGED readVars
    /\ kpc[k] = "chanClose"
    /\ chanCloses' = chanCloses + 1
    /\ IF outputClosed
       THEN /\ panicked' = panicked \cup {k}
            /\ kpc' = [kpc EXCEPT ![k] = "panic"]
            /\ UNCHANGED outputClosed
       ELSE /\ outputClosed' = TRUE
            /\ kpc' = [kpc EXCEPT ![k] = "unlock"]
            /\ UNCHANGED panicked
    /\ UNCHANGED <<status, rwMutex, connCloses, setters>>
    /\ UNCHANGED <<output, wire, enq, call, last, calls, closeReturned, handles, pumpVars>>

\* close, line 68: s.rwMutex.Unlock().
closeUnlock(k) ==
    /\ Running
    /\ UNCHANGED readVars
    /\ kpc[k] = "unlock"
    /\ rwMutex' = "none"
    /\ kpc' = [kpc EXCEPT ![k] = "done"]
    /\ UNCHANGED <<status, outputClosed, connCloses, chanCloses, setters, panicked>>
    /\ UNCHANGED <<output, wire, enq, call, last, calls, closeReturned, handles, pumpVars>>

(* ----------------------------- write pump ----------------------------- *)

\* The transport's answer to a write: it fails once the connection has been
\* closed, and may fail at any time (peer gone, write deadline exceeded).
WriteOutcomes == IF connCloses > 0 THEN {FALSE} ELSE {TRUE, FALSE}

\* Mutant of pumpStops: the pump goes on after a Close envelope.
pumpNeverStops(e) == FALSE

\* writePump, line 93: the pump returns after writing a Close envelope.
pumpStops(e) == e.t = "Close"

\* writePump, line 81, ok = true: an envelope is received from the channel,
\* also from a closed channel that still buffers envelopes.
pumpRecv ==
    /\ Running
    /\ UNCHANGED readVars
    /\ wp.pc = "select"
    /\ output # <<>>
    /\ wp' = [wp EXCEPT !.pc = "writeRaw", !.cur = Head(output)]
    /\ output' = Tail(output)
    /\ UNCHANGED <<status, outputClosed, rwMutex, connCloses, chanCloses,
                   setters, panicked>>
    /\ UNCHANGED <<wire, enq, call, last, calls, closeReturned, handles, kpc,
                   ticks, wpErrs, sent>>

\* writePump, lines 81-84, ok = false: the channel is closed and empty.
pumpRecvClosed ==
    /\ Running
    /\ UNCHANGED readVars
    /\ wp.pc = "select"
    /\ output = <<>>
    /\ outputClosed
    /\ wp' = [wp EXCEPT !.pc = "done", !.exit = "chanClosed"]
    /\ UNCHANGED <<sessionVars, wire, enq, call, last, calls, closeReturned, handles,
                   kpc, ticks, wpErrs, sent>>

\* Mutant of pumpWriteRawCheck: writeRaw without its load of status.
pumpWriteRawNoCheck ==
    /\ Running
    /\ UNCHANGED readVars
    /\ wp.pc = "writeRaw"
    /\ wp' = [wp EXCEPT !.pc = "write"]
    /\ UNCHANGED <<sessionVars, wire, enq, call, last, calls, closeReturned, handles,
                   kpc, ticks, wpErrs, sent>>

\* writePump line 86 into writeRaw lines 44-46: the load of status; on
\* StatusStop the error goes to the error handler and the pump returns.
pumpWriteRawCheck ==
    /\ Running
    /\ UNCHANGED readVars
    /\ wp.pc = "writeRaw"
    /\ IF closed
       THEN /\ wp' = [wp EXCEPT !.pc = "done", !.exit = "error"]
            /\ wpErrs' = wpErrs + 1
       ELSE /\ wp' = [wp EXCEPT !.pc = "write"]
            /\ UNCHANGED wpErrs
    /\ UNCHANGED <<sessionVars, wire, enq, call, last, calls, closeReturned, handles,
                   kpc, ticks, sent>>

\* writeRaw lines 48-55 and writePump lines 88-103: the frame is written
\* under a fresh write deadline; a failure is reported and ends the pump, a
\* Close envelope ends it, a Text or Binary envelope is announced as sent.
pumpWrite ==
    /\ Running
    /\ UNCHANGED readVars
    /\ wp.pc = "write"
    /\ \E ok \in WriteOutcomes :
          IF ok
          THEN /\ wire' = Append(wire, Frame(wp.cur, "writePump"))
               /\ IF pumpStops(wp.cur)
                  THEN /\ wp' = [wp EXCEPT !.pc = "done", !.exit = "close"]
                       /\ UNCHANGED sent
                  ELSE /\ wp' = [wp EXCEPT !.pc = "select"]
                       /\ sent' = sent + 1
               /\ UNCHANGED wpErrs
          ELSE /\ wp' = [wp EXCEPT !.pc = "done", !.exit = "error"]
               /\ wpErrs' = wpErrs + 1
               /\ UNCHANGED <<wire, sent>>
    /\ UNCHANGED <<sessionVars, enq, call, last, calls, closeReturned, handles, kpc, ticks>>

\* writePump, lines 104-105: the ticker's channel is ready and select takes
\* that case, whatever the output channel holds.
pumpTick ==
    /\ Running
    /\ UNCHANGED readVars
    /\ wp.pc = "select"
    /\ ticks < MaxTicks
    /\ ticks' = ticks + 1
    /\ wp' = [wp EXCEPT !.pc = "ping"]
    /\ UNCHANGED <<sessionVars, wire, enq, call, last, calls, closeReturned, handles,
                   kpc, wpErrs, sent>>

\* ping, lines 72-74, into writeRaw lines 44-46: on StatusStop writeRaw
\* returns an error, which ping discards.
pumpPingCheck ==
    /\ Running
    /\ UNCHANGED readVars
    /\ wp.pc = "ping"
    /\ wp' = [wp EXCEPT !.pc = IF closed THEN "select" ELSE "pingWrite"]
    /\ UNCHANGED <<sessionVars, wire, enq, call, last, calls, closeReturned, handles,
                   kpc, ticks, wpErrs, sent>>

\* Mutant of pumpPingWrite: the Ping goes through the output channel like
\* any other envelope.
pumpPingEnqueue ==
    /\ Running
    /\ UNCHANGED readVars
    /\ wp.pc = "pingWrite"
    /\ Len(output) < MessageBufferSize
    /\ output' = Append(output, [t |-> "Ping", msg |-> 0])
    /\ enq' = Append(enq, [t |-> "Ping", msg |-> 0])
    /\ wp' = [wp EXCEPT !.pc = "select"]
    /\ UNCHANGED <<status, outputClosed, rwMutex, connCloses, chanCloses, setters,
                   panicked, wire, call, last, calls, closeReturned, handles, kpc,
                   ticks, wpErrs, sent>>

\* ping via writeRaw lines 48-55: the Ping frame is written; ping discards
\* the error of a failed write and the pump goes on.
pumpPingWrite ==
    /\ Running
    /\ UNCHANGED readVars
    /\ wp.pc = "pingWrite"
    /\ \E ok \in WriteOutcomes :
          IF ok
          THEN wire' = Append(wire, Frame([t |-> "Ping", msg |-> 0], "writePump"))
          ELSE UNCHANGED wire
    /\ wp' = [wp EXCEPT !.pc = "select"]
    /\ UNCHANGED <<sessionVars, enq, call, last, calls, closeReturned, handles, kpc,
                   ticks, wpErrs, sent>>

(* ----------------------------- read pump ------------------------------ *)

\* Everything the read pump leaves alone.
notReadVars == <<sessionVars, wire, enq, call, last, calls, closeReturned, handles,
                 kpc, pumpVars>>

\* Mutant of renewDue: every call renews.
renewAlways(t) == TRUE

\* setReadDeadline line 146: at least one second has passed since the
\* renewal recorded in lastReadTime.
renewDue(t) == t - lastReadTime >= Second

\* setReadDeadline lines 144-150: one reading of the clock; a renewal that is
\* due records the reading and sets the connection's read deadline to it
\* plus PongWait + PingPeriod, one that is not due does nothing.
setReadDeadline ==
    IF renewDue(now)
    THEN /\ lastReadTime' = now
         /\ readDeadline' = now + PongWait + PingPeriod
         /\ renewals' = Append(renewals, now)
    ELSE UNCHANGED <<lastReadTime, readDeadline, renewals>>

\* conn.ReadMessage can deliver a frame: the connection is open and its read
\* deadline has not passed.
Readable ==
    /\ connCloses = 0
    /\ now < readDeadline

\* readPump lines 111-124: the read limit, the first setReadDeadline and the
\* installation of the pong and close handlers.
readPumpStart ==
    /\ Running
    /\ rp = "start"
    /\ setReadDeadline
    /\ rp' = "read"
    /\ UNCHANGED <<notReadVars, now, reads, dispatched, rpErrs>>

\* readPump lines 127 and 133-140: ReadMessage returns a text or binary
\* frame; the deadline is renewed and the frame goes to its handler.
readMessage ==
    /\ Running
    /\ rp = "read"
    /\ Readable
    /\ reads < MaxReads
    /\ setReadDeadline
    /\ reads' = reads + 1
    /\ dispatched' = dispatched + 1
    /\ UNCHANGED <<notReadVars, rp, now, rpErrs>>

\* readPump lines 114-118: a pong arrives while ReadMessage is waiting; the
\* pong handler renews the deadline and ReadMessage goes on waiting.
readPong ==
    /\ Running
    /\ rp = "read"
    /\ Readable
    /\ reads < MaxReads
    /\ setReadDeadline
    /\ reads' = reads + 1
    /\ UNCHANGED <<notReadVars, rp, now, dispatched, rpErrs>>

\* Mutant of readFail: the read pump tears the session down itself.
readFailTearsDown ==
    /\ Running
    /\ rp = "read"
    /\ rpErrs' = rpErrs + 1
    /\ rp' = "done"
    /\ status' = StatusStop
    /\ connCloses' = connCloses + 1
    /\ UNCHANGED <<output, outputClosed, rwMutex, chanCloses, setters, panicked,
                   wire, enq, call, last, calls, closeReturned, handles, kpc,
                   pumpVars, now, lastReadTime, readDeadline, renewals, reads,
                   dispatched>>

\* readPump lines 127-132: ReadMessage fails (end of stream, protocol error,
\* closed connection, deadline passed); the error goes to errorHandler and
\* the loop is left, which ends readPump.
readFail ==
    /\ Running
    /\ rp = "read"
    /\ rpErrs' = rpErrs + 1
    /\ rp' = "done"
    /\ UNCHANGED <<notReadVars, now, lastReadTime, readDeadline, renewals, reads,
                   dispatched>>

\* Half a second passes.
clockTick ==
    /\ Running
    /\ now < MaxClock
    /\ now' = now + 1
    /\ UNCHANGED <<notReadVars, rp, lastReadTime, readDeadline, renewals, reads,
                   dispatched, rpErrs>>

(* --------------------------- specification ---------------------------- *)

\* The methods that enqueue an envelope.
EnqueueNext(c) ==
    \/ Write(c)
    \/ WriteBinary(c)
    \/ Close(c)
    \/ CloseWithMsg(c)

\* The methods that do not go through the channel.
DirectNext(c) ==
    \/ IsClosed(c)
    \/ WriteControl(c)
    \/ GetConn(c)

CallerSteps(c) ==
    \/ writeMessageCheck(c)
    \/ writeMessageSend(c)

CloseNext(k) ==
    \/ closeCheck(k)
    \/ closeLock(k)
    \/ closeStore(k)
    \/ closeConn(k)
    \/ closeChan(k)
    \/ closeUnlock(k)

\* The select loop of writePump without its ticker case.
PumpNext ==
    \/ pumpRecv
    \/ pumpRecvClosed
    \/ pumpWriteRawCheck
    \/ pumpWrite

\* The ticker case of writePump's select.
PingNext ==
    \/ pumpTick
    \/ pumpPingCheck
    \/ pumpPingWrite

\* The session with its callers, its write pump and one invocation of the
\* close path.
Next ==
    \/ \E c \in Callers : EnqueueNext(c)
    \/ \E c \in Callers : CallerSteps(c)
    \/ CloseNext("handler")
    \/ PumpNext
    \/ PingNext

Spec == Init /\ [][Next]_vars

\* The same with the close path invoked from both of its call sites, which
\* may run concurrently; the ticker is left out.
NextRace ==
    \/ \E c \in Callers : EnqueueNext(c)
    \/ \E c \in Callers : CallerSteps(c)
    \/ \E k \in Closers : CloseNext(k)
    \/ PumpNext

SpecRace == Init /\ [][NextRace]_vars

\* The whole public API, with one invocation of the close path and the
\* ticker left out.
NextApi ==
    \/ \E c \in Callers : EnqueueNext(c)
    \/ \E c \in Callers : DirectNext(c)
    \/ \E c \in Callers : CallerSteps(c)
    \/ CloseNext("handler")
    \/ PumpNext

SpecApi == Init /\ [][NextApi]_vars

\* The read pump with the clock and one invocation of the close path; the
\* write side is left out.
NextRead ==
    \/ readPumpStart
    \/ readMessage
    \/ readPong
    \/ readFail
    \/ clockTick
    \/ CloseNext("handler")

SpecRead == Init /\ [][NextRead]_vars

\* The scheduling of the Go runtime: a goroutine that can take a step
\* eventually takes one.  Nothing obliges a caller to start a call, the
\* ticker to tick, or the close path to be invoked.
Fairness ==
    /\ \A c \in Callers : WF_vars(CallerSteps(c))
    /\ WF_vars(PumpNext)
    /\ WF_vars(pumpPingCheck \/ pumpPingWrite)
    /\ \A k \in Closers :
          WF_vars(closeLock(k) \/ closeStore(k) \/ closeConn(k)
                    \/ closeChan(k) \/ closeUnlock(k))

FairSpec == Spec /\ Fairness

(* ------------------------------ claims -------------------------------- *)

RECURSIVE UpToClose(_)
\* The envelopes of q up to and including its first Close envelope.
UpToClose(q) ==
    IF q = <<>> THEN <<>>
    ELSE IF Head(q).t = "Close" THEN <<Head(q)>>
    ELSE <<Head(q)>> \o UpToClose(Tail(q))

IsPrefix(a, b) == Len(a) <= Len(b) /\ SubSeq(b, 1, Len(a)) = a

RECURSIVE Envelopes(_)
\* The envelopes the write pump delivered to the transport, in order: its
\* frames without the heartbeat pings.
Envelopes(w) ==
    IF w = <<>> THEN <<>>
    ELSE LET f == Head(w)
         IN  (IF f.by = "writePump" /\ f.t # "Ping"
              THEN <<[t |-> f.t, msg |-> f.msg]>> ELSE <<>>) \o Envelopes(Tail(w))

C2_CloseExactlyOnce ==
    /\ connCloses <= 1
    /\ chanCloses <= 1
    /\ panicked = {}

\* C3: no caller of Write, WriteBinary, Close or CloseWithMsg is ever left
\* with an unrecovered panic: a send that finds the channel closed is
\* recovered, reported once to the error handler, and the method returns nil.
C3_EnqueueNeverPanics ==
    /\ panicked \cap Callers = {}
    /\ last.recovered => last.ret = "nil" /\ last.rep = 1 /\ ~last.enqd

\* A send has panicked on the closed channel, whose buffer is still full, and
\* the call has returned.
C3_Witness ==
    /\ last.recovered
    /\ outputClosed
    /\ Len(output) = MessageBufferSize

\* C4 as claimed: a returned Write or WriteBinary either returned nil with
\* its envelope on the channel, or returned SessionClosed.
C4_SuccessOrSessionClosed ==
    last.op \in WriteOps =>
        \/ last.ret = "nil" /\ last.enqd
        \/ last.ret = "SessionClosed"

\* C4 as amended: a returned Write or WriteBinary has one of three outcomes:
\* nil with its envelope on the channel and nothing reported; SessionClosed
\* with nothing enqueued and nothing reported; or nil with nothing enqueued
\* and the error handler invoked exactly once for the call.
C4_SuccessOrReported ==
    last.op \in WriteOps =>
        \/ last.ret = "nil" /\ last.enqd /\ last.rep = 0
        \/ last.ret = "SessionClosed" /\ ~last.enqd /\ last.rep = 0
        \/ last.ret = "nil" /\ ~last.enqd /\ last.rep = 1

\* A Write that lost the race: nil to its caller, nothing enqueued, reported.
C4_Witness ==
    /\ last.op \in WriteOps
    /\ last.ret = "nil"
    /\ ~last.enqd
    /\ last.rep = 1
    /\ ~last.recovered

\* C5: a call started while status is StatusStop returns at once with its
\* error (SessionClosed for Write and WriteBinary), never enters
\* writeMessage, reports nothing and changes neither status, the channel,
\* the transport nor anything written to it.
C5_WriteOnClosedRejected ==
    [][(closed /\ calls' = calls + 1) =>
          /\ call' = call
          /\ last'.op \in WriteOps => last'.ret = "SessionClosed"
          /\ last'.ret \in {"SessionClosed", "AlreadyClosed"}
          /\ ~last'.enqd /\ last'.rep = 0
          /\ UNCHANGED <<status, output, outputClosed, rwMutex, connCloses,
                         chanCloses, wire, enq>>]_vars

\* A Write or WriteBinary has been refused on the closed session.
C5_Witness ==
    /\ last.op \in WriteOps
    /\ last.ret = "SessionClosed"
    /\ closed

\* C6: a Close or CloseWithMsg that was called after another such call had
\* returned, returns AlreadyClosed.
C6_SecondCloseAlreadyClosed ==
    (last.op \in CloseOps /\ last.second) => last.ret = "AlreadyClosed"

\* C7: status never goes back from StatusStop (it does not: no action stores
\* StatusNormal), and at most one goroutine performs the check-and-set of the
\* close path, i.e. passes the check of line 63 and executes the store of
\* line 65.
C7_SingleCheckAndSet ==
    /\ Cardinality(setters) <= 1
    /\ (setters # {} => closed)

\* C8 as claimed: the channel is closed exactly when status is StatusStop.
C8_QueueClosedIffStatusClosed == outputClosed <=> closed

\* C8 as amended: the channel is closed only if status is StatusStop, and
\* whenever status is StatusStop and no goroutine holds rwMutex the channel is
\* closed; while the close path holds the mutex there is a window in which
\* status is StatusStop and the channel still accepts sends.
C8_QueueClosedImpliesStatusClosed ==
    /\ outputClosed => closed
    /\ (closed /\ rwMutex = "none") => outputClosed

\* A sender past both checks while status is StatusStop and the channel open.
C8_Witness ==
    /\ closed
    /\ ~outputClosed
    /\ rwMutex # "none"
    /\ \E c \in Callers : call[c].pc = "send"

\* C9: every frame the transport received was written by the write pump, and
\* no caller of the public API has been handed the transport handle.
C9_OnlyPumpTouchesTransport ==
    /\ \A i \in 1..Len(wire) : wire[i].by = "writePump"
    /\ handles = {}

\* C10: every call of Write, WriteBinary, Close or CloseWithMsg that has
\* started eventually returns.
C10_EveryCallReturns ==
    \A c \in Callers : (call[c].pc # "idle") ~> (call[c].pc = "idle")

\* The positions of the pump at which a write to the transport is in flight:
\* writeRaw is past its load of status.
Writing == {"write", "pingWrite"}

\* C11: no step of a Close or CloseWithMsg call that entered writeMessage
\* changes status, closes the channel or touches the transport; the only
\* effect such a call can have on the session is to append its one Close
\* envelope to the channel, on which it returns nil.
C11_CloseOnlyEnqueues ==
    [][\A c \in Callers :
          (call'[c] # call[c] /\ (call[c].op \in CloseOps \/ call'[c].op \in CloseOps)) =>
              /\ UNCHANGED <<status, outputClosed, rwMutex, connCloses, chanCloses, wire>>
              /\ \/ output' = output /\ enq' = enq
                 \/ /\ call[c].pc = "send"
                    /\ call[c].env.t = "Close"
                    /\ output' = Append(output, call[c].env)
                    /\ enq' = Append(enq, call[c].env)
                    /\ last'.enqd /\ last'.ret = "nil"]_vars

\* A Close call has returned nil; its envelope is still in the channel, and
\* status, channel and transport are all still open.
C11_Witness ==
    /\ last.op \in CloseOps
    /\ last.enqd
    /\ last.ret = "nil"
    /\ ~closed
    /\ ~outputClosed
    /\ connCloses = 0
    /\ output # <<>>
    /\ output[Len(output)].t = "Close"

\* C12: once the write pump has returned, status eventually becomes
\* StatusStop and the transport is eventually closed.
C12_PumpTerminationTearsDown ==
    (wp.pc = "done") ~> (closed /\ connCloses >= 1)

\* C13: a pump that returned because the channel was closed and empty has
\* written a Close frame as its last frame.
C13_FinalCloseFrame ==
    wp.exit = "chanClosed" =>
        /\ wire # <<>>
        /\ wire[Len(wire)].t = "Close"
        /\ wire[Len(wire)].by = "writePump"

\* C14: a Close frame written by the pump is the last frame on the wire and
\* the pump has returned: no envelope enqueued behind the Close envelope and
\* no ping is written after it.
C14_NothingAfterClose ==
    \A i \in 1..Len(wire) :
        (wire[i].by = "writePump" /\ wire[i].t = "Close") =>
            /\ i = Len(wire)
            /\ wp.pc = "done"
            /\ wp.exit = "close"

\* The pump has returned after its Close frame while an envelope is waiting
\* in the channel and the ticker can still tick.
C14_Witness ==
    /\ wp.exit = "close"
    /\ output # <<>>
    /\ ticks < MaxTicks

\* C15: a write of the pump that fails (a step out of a write in flight that
\* adds no frame to the wire), whether of an envelope or of a ping, invokes
\* the error handler once and ends the pump.
C15_FailedWriteReportedAndFatal ==
    [][(wp.pc \in Writing /\ wp' # wp /\ wire' = wire) =>
          (wpErrs' = wpErrs + 1 /\ wp'.pc = "done")]_vars

C17_ReadFailureOnlyReports ==
    [][/\ (rpErrs' = 1) <=> (rp' = "done")
       /\ rpErrs' \in {0, 1}
       /\ (rp' = "done" /\ rp # "done") =>
              /\ rpErrs' = rpErrs + 1
              /\ UNCHANGED <<status, output, outputClosed, rwMutex, connCloses,
                             chanCloses, setters, kpc>>]_vars

\* The read pump has ended on a failed read after dispatching a message,
\* and the session is untouched: open status, open channel, open transport.
C17_Witness ==
    /\ rp = "done"
    /\ rpErrs = 1
    /\ dispatched >= 1
    /\ ~closed
    /\ ~outputClosed
    /\ connCloses = 0
    /\ kpc["handler"] = "idle"

\* C18: two renewals issued one after the other are at least one second
\* apart, so that any burst of frames shorter than a second issues at most
\* one; lastReadTime is the time of the last renewal issued, and the
\* deadline in force is that time plus PongWait + PingPeriod.
C18_RenewalCoalesced ==
    /\ \A i \in 1..(Len(renewals) - 1) : renewals[i + 1] - renewals[i] >= Second
    /\ lastReadTime = IF renewals = <<>> THEN ZeroTime ELSE renewals[Len(renewals)]
    /\ renewals # <<>> => readDeadline = lastReadTime + PongWait + PingPeriod

\* Four frames arrived after the first renewal: the one that came a full
\* second after it issued the second renewal, the other three issued none.
C18_Witness ==
    /\ Len(renewals) = 2
    /\ reads = MaxReads
    /\ renewals[2] - renewals[1] = Second

\* C19: once status is StatusStop and no write is in flight, the pump never
\* starts one and the wire never changes: writeRaw on a dequeued envelope
\* returns the closed-session error, which is reported and ends the pump,
\* and a tick leads back to select without a Ping.
C19_NoWriteStartsAfterClose ==
    [][(closed /\ wp.pc \notin Writing) =>
          /\ wire' = wire
          /\ wp'.pc \notin Writing
          /\ (wp.pc = "writeRaw" /\ wp' # wp) =>
                 (wp'.pc = "done" /\ wp'.exit = "error" /\ wpErrs' = wpErrs + 1)
          /\ (wp.pc = "ping" /\ wp' # wp) =>
                 (wp'.pc = "select" /\ wpErrs' = wpErrs)]_vars

\* The pump has received an envelope from the closed channel, reported the
\* closed-session error and returned; nothing was ever delivered.
C19_Witness ==
    /\ outputClosed
    /\ wp.exit = "error"
    /\ wpErrs = 1
    /\ wire = <<>>
    /\ wp.cur # NoEnv

\* C20: once the channel is closed the write pump eventually returns and
\* every call in progress eventually returns.
C20_CloseReleasesEveryone ==
    outputClosed ~> (wp.pc = "done" /\ \A c \in Callers : call[c].pc = "idle")

\* The channel is closed, the pump has returned, and a sender that panicked
\* on the closed channel has recovered and returned.
C20_Witness ==
    /\ outputClosed
    /\ wp.pc = "done"
    /\ last.recovered
    /\ \A c \in Callers : call[c].pc = "idle"

=============================================================================
